---- MODULE Spec2Model ----
(***************************************************************************)
(* Model of Domain-Contact-Extractor: the e-mail extraction pipeline of    *)
(* src/extractor.py (EmailExtractor, EmailAnalyzer, main), the settings of *)
(* src/config/settings.py it is compared with, and the rate-limited        *)
(* retrying client of src/company_lookup_app.py (OpenRouterClient, main).  *)
(*                                                                         *)
(* Text is modelled as a sequence of one-character strings, so that        *)
(* str.lower(), str.split('@') and re.search of a literal pattern are      *)
(* computed character by character.                                        *)
(***************************************************************************)
EXTENDS Integers, Sequences, FiniteSets, TLC

VARIABLES
    \* ---- src/extractor.py: main() and its locals
    extraction_method,  \* sidebar selectbox
    include_sitemap,    \* sidebar checkbox
    url,                \* the text input
    epc,                \* position of main() in the extraction block
    display,            \* what main() has shown for the request
    all_emails,         \* running set
    requests_emails,    \* result of extract_with_requests
    selenium_emails,    \* result of extract_with_selenium
    sitemap_emails,     \* result of extract_from_sitemap
    static_resp,        \* what the static GET answered
    rendered_resp,      \* what the browser session produced
    sitemap_resp,       \* what the sitemap probing produced
    calls,              \* number of invocations of each fetcher
    \* ---- src/extractor.py: the candidate loop of a fetcher
    found_emails,       \* candidates of one document, in document order
    scan_pos,           \* number of candidates already examined
    emails,             \* the fetcher's local result set
    verdict,            \* the last candidate examined and what was decided
    \* ---- src/company_lookup_app.py: OpenRouterClient and its callers
    now,                \* time.time(), in seconds
    rate_limit_delay,   \* OpenRouterClient.rate_limit_delay
    max_retries,        \* the max_retries main() passes to query_model
    last_request_time,  \* OpenRouterClient.last_request_time
    callers,            \* the callers that share the client instance
    cpc,                \* position of each caller
    attempt,            \* query_model's loop variable, per caller
    wake,               \* end of the caller's current time.sleep
    result,             \* what query_model returned to the caller
    shown,              \* what main() displayed for the query
    reqlog,             \* per caller: bookkeeping of the current call
    starts,             \* start times of the last two requests of the client
    \* ---- src/extractor.py: EmailAnalyzer.categorize_emails
    cat_emails,         \* the argument, as the sorted list main() passes
    cat_pos,            \* number of addresses the loop has handled
    categories,         \* the local dict of lists
    cat_result,         \* the returned dict, or NotReturned
    \* ---- src/extractor.py: extract_with_selenium and _configure_selenium
    spc,                \* position in extract_with_selenium
    browser,            \* the Chrome process: "none", "running" or "quit"
    driver,             \* the local variable driver: "None" or "session"
    sel_page,           \* the document the browser renders
    sel_emails,         \* the local set emails
    sel_exc,            \* the exception that ended the try block
    sel_return,         \* the returned set, or NoReturn
    \* ---- src/extractor.py: extract_from_sitemap
    sm_answers,         \* what each sitemap location answers
    sm_idx,             \* index of the next location of the for loop
    sm_emails,          \* the local set emails
    sm_requested,       \* the locations requested so far, in order
    sm_return,          \* the returned set, or NoReturn
    \* ---- src/extractor.py: the time one request of main() spends waiting
    b_method,           \* sidebar selectbox
    b_sitemap,          \* sidebar checkbox
    bpc,                \* position of main() in the extraction block
    b_idx,              \* index of the next sitemap location
    b_found,            \* len(all_emails)
    b_elapsed,          \* seconds since the extraction block was entered
    b_log               \* the timeouts handed out, and when

exVars == << extraction_method, include_sitemap, url, epc, display,
             all_emails,
             requests_emails, selenium_emails, sitemap_emails,
             static_resp, rendered_resp, sitemap_resp, calls >>

scanVars == << found_emails, scan_pos, emails, verdict >>

clVars == << now, rate_limit_delay, max_retries, last_request_time, callers,
             cpc, attempt, wake, result, shown, reqlog, starts >>

catVars == << cat_emails, cat_pos, categories, cat_result >>

selVars == << spc, browser, driver, sel_page, sel_emails, sel_exc,
              sel_return >>

smVars == << sm_answers, sm_idx, sm_emails, sm_requested, sm_return >>

bgVars == << b_method, b_sitemap, bpc, b_idx, b_found, b_elapsed, b_log >>

vars == << exVars, scanVars, clVars, catVars, selVars, smVars, bgVars >>

\* what an action of one component leaves alone: the other components
notEx == << scanVars, clVars, catVars, selVars, smVars, bgVars >>

notScan == << exVars, clVars, catVars, selVars, smVars, bgVars >>

notCl == << exVars, scanVars, catVars, selVars, smVars, bgVars >>

notCat == << exVars, scanVars, clVars, selVars, smVars, bgVars >>

notSel == << exVars, scanVars, clVars, catVars, smVars, bgVars >>

notSm == << exVars, scanVars, clVars, catVars, selVars, bgVars >>

notBg == << exVars, scanVars, clVars, catVars, selVars, smVars >>

-----------------------------------------------------------------------------
(* Text helpers                                                            *)

UpperChars == <<"A","B","C","D","E","F","G","H","I","J","K","L","M","N","O","P","Q","R","S","T","U","V","W","X","Y","Z">>
LowerChars == <<"a","b","c","d","e","f","g","h","i","j","k","l","m","n","o","p","q","r","s","t","u","v","w","x","y","z">>
DigitChars == <<"0","1","2","3","4","5","6","7","8","9">>

Range(s) == { s[i] : i \in 1..Len(s) }

\* str.lower() on one character
LowerChar(c) ==
    IF \E i \in 1..Len(UpperChars) : UpperChars[i] = c
    THEN LowerChars[CHOOSE i \in 1..Len(UpperChars) : UpperChars[i] = c]
    ELSE c

\* str.lower()
Lower(s) == [ i \in 1..Len(s) |-> LowerChar(s[i]) ]

\* positions of the character c in s
Positions(s, c) == { i \in 1..Len(s) : s[i] = c }

\* re.search(pat, s) for a pattern without metacharacters: substring test
Contains(s, pat) ==
    \E i \in 1..(Len(s) - Len(pat) + 1) : SubSeq(s, i, i + Len(pat) - 1) = pat

\* s.split('@')[0]
LocalPart(s) ==
    IF Positions(s, "@") = {} THEN s
    ELSE LET p == CHOOSE i \in Positions(s, "@") :
                      \A j \in Positions(s, "@") : i <= j
         IN  SubSeq(s, 1, p - 1)

\* s.split('@')[1]; defined only when s holds an '@' (IndexError otherwise)
SplitDomain(s) ==
    LET ats == Positions(s, "@")
        p   == CHOOSE i \in ats : \A j \in ats : i <= j
        rest == { j \in ats : j > p }
        q   == IF rest = {} THEN Len(s) + 1
               ELSE CHOOSE i \in rest : \A j \in rest : i <= j
    IN  SubSeq(s, p + 1, q - 1)

-----------------------------------------------------------------------------
(* EmailExtractor.__init__ and the configuration of config/settings.py      *)

excluded_domains ==
    { <<"e","x","a","m","p","l","e",".","c","o","m">>, <<"t","e","s","t",".","c","o","m">>,
      <<"d","o","m","a","i","n",".","c","o","m">>, <<"y","o","u","r","s","i","t","e",".","c","o","m">>,
      <<"s","e","n","t","r","y",".","i","o">>, <<"g","o","o","g","l","e",".","c","o","m">>,
      <<"f","a","c","e","b","o","o","k",".","c","o","m">>, <<"t","w","i","t","t","e","r",".","c","o","m">>,
      <<"l","i","n","k","e","d","i","n",".","c","o","m">>, <<"i","n","s","t","a","g","r","a","m",".","c","o","m">>,
      <<"y","o","u","t","u","b","e",".","c","o","m">>, <<"w","o","r","d","p","r","e","s","s",".","c","o","m">> }

fake_patterns ==
    << <<"n","o","r","e","p","l","y">>, <<"n","o","-","r","e","p","l","y">>,
       <<"d","o","n","o","t","r","e","p","l","y">>, <<"t","e","s","t","@">>,
       <<"a","d","m","i","n","@","e","x","a","m","p","l","e">>, <<"u","s","e","r","@","e","x","a","m","p","l","e">>,
       <<"c","o","n","t","a","c","t","@","e","x","a","m","p","l","e">> >>

EXCLUDED_DOMAINS ==
    { <<"e","x","a","m","p","l","e",".","c","o","m">>, <<"t","e","s","t",".","c","o","m">>,
      <<"d","o","m","a","i","n",".","c","o","m">>, <<"y","o","u","r","s","i","t","e",".","c","o","m">>,
      <<"s","e","n","t","r","y",".","i","o">>, <<"g","o","o","g","l","e",".","c","o","m">>,
      <<"f","a","c","e","b","o","o","k",".","c","o","m">>, <<"t","w","i","t","t","e","r",".","c","o","m">>,
      <<"l","i","n","k","e","d","i","n",".","c","o","m">>, <<"i","n","s","t","a","g","r","a","m",".","c","o","m">>,
      <<"y","o","u","t","u","b","e",".","c","o","m">>, <<"w","o","r","d","p","r","e","s","s",".","c","o","m">>,
      <<"g","i","t","h","u","b",".","c","o","m">>, <<"s","t","a","c","k","o","v","e","r","f","l","o","w",".","c","o","m">>,
      <<"r","e","d","d","i","t",".","c","o","m">> }

FAKE_PATTERNS ==
    << <<"n","o","r","e","p","l","y">>, <<"n","o","-","r","e","p","l","y">>,
       <<"d","o","n","o","t","r","e","p","l","y">>, <<"t","e","s","t","@">>,
       <<"a","d","m","i","n","@","e","x","a","m","p","l","e">>, <<"u","s","e","r","@","e","x","a","m","p","l","e">>,
       <<"c","o","n","t","a","c","t","@","e","x","a","m","p","l","e">>, <<"w","e","b","m","a","s","t","e","r","@","e","x","a","m","p","l","e">>,
       <<"i","n","f","o","@","e","x","a","m","p","l","e">>, <<"@","e","x","a","m","p","l","e",".","c","o","m">>,
       <<"s","a","m","p","l","e","@">>, <<"d","e","m","o","@">>,
       <<"p","l","a","c","e","h","o","l","d","e","r","@">> >>

-----------------------------------------------------------------------------
(* EmailExtractor._is_valid_email                                           *)

Letters == Range(UpperChars) \cup Range(LowerChars)
LocalAlphabet == Letters \cup Range(DigitChars) \cup {".", "_", "%", "+", "-"}
DomainAlphabet == Letters \cup Range(DigitChars) \cup {".", "-"}

\* validators.email(email) of the validators package: one '@', a non-empty
\* local part, a domain of non-empty dot-separated labels ending in a
\* top-level label of at least two letters
validators_email(s) ==
    /\ Cardinality(Positions(s, "@")) = 1
    /\ LET l == LocalPart(s)
           d == SplitDomain(s)
           dots == Positions(d, ".")
       IN  /\ Len(l) >= 1
           /\ Range(l) \subseteq LocalAlphabet
           /\ Range(d) \subseteq DomainAlphabet
           /\ dots # {}
           /\ 1 \notin dots
           /\ \A i \in dots : i + 1 \notin dots
           /\ \A i \in dots : i + 2 <= Len(d)
           /\ LET last == CHOOSE i \in dots : \A j \in dots : j <= i
              IN  Range(SubSeq(d, last + 1, Len(d))) \subseteq Letters

MatchesFake(s, patterns) ==
    \E i \in 1..Len(patterns) : Contains(Lower(s), patterns[i])

\* domain = email.split('@')[1].lower(); domain in self.excluded_domains
DomainExcluded(email) == Lower(SplitDomain(email)) \in excluded_domains

_is_valid_email(email) ==
    IF ~ validators_email(email) THEN FALSE
    ELSE IF DomainExcluded(email) THEN FALSE
    ELSE IF MatchesFake(email, fake_patterns) THEN FALSE
    ELSE TRUE

-----------------------------------------------------------------------------
(* Candidate addresses and pages                                            *)

\* the candidate strings a page may hold, in a fixed order
Raw ==
    << <<"J","a","n","e","@","E","x","a","m","p","l","e",".","o","r","g">>,
       <<"j","a","n","e","@","e","x","a","m","p","l","e",".","o","r","g">>,
       <<"s","a","l","e","s","@","a","c","m","e",".","i","o">>,
       <<"a",".","b","@","a","c","m","e",".","i","o">>,
       <<"i","n","f","o","@","c","o","r","p",".","i","o">>,
       <<"b","o","b","@","T","e","s","t",".","c","o","m">> >>

\* the largest number of candidates on one page
MaxPage == 4

\* a page holds at most MaxPage consecutive candidates of Raw
Pages ==
    { { Raw[i] : i \in { j \in 1..Len(Raw) : lo <= j /\ j < lo + n } } :
        lo \in 1..Len(Raw), n \in 0..MaxPage }

CanonicalAsFound(email) == email

\* emails.add(email.lower())
Canonical(email) == Lower(email)

\* the loops "for email in ...: if self._is_valid_email(email):
\* emails.add(email.lower())" over the candidates of one document
Accepted(page) == { Canonical(e) : e \in { x \in page : _is_valid_email(x) } }

-----------------------------------------------------------------------------
(* The fetchers of EmailExtractor                                           *)

NoResp == [ status |-> "none", body |-> {} ]

\* what the site may answer to the static GET: a document, a non-2xx
\* status (raise_for_status) or a network error
StaticOutcomes ==
    { [ status |-> "ok", body |-> p ] : p \in Pages } \cup
    { [ status |-> s, body |-> {} ] : s \in {"http_error", "network_error"} }

extract_with_requests(resp) ==
    IF resp.status = "ok" THEN Accepted(resp.body) ELSE {}

\* what the browser session may produce: the rendered document, a failure
\* to start the driver, a navigation error or a wait timeout
RenderedOutcomes ==
    { [ status |-> "ok", body |-> p ] : p \in Pages } \cup
    { [ status |-> s, body |-> {} ] :
        s \in {"driver_failed", "webdriver_error", "timeout"} }

extract_with_selenium(resp) ==
    IF resp.status = "ok" THEN Accepted(resp.body) ELSE {}

\* the sitemap locations tried, in order
sitemap_urls == << "sitemap.xml", "sitemap_index.xml", "sitemap.txt" >>

\* what the three locations may answer: the number of GETs issued, and the
\* body of the first location that answered 200 (status "none" if none did)
SitemapOutcomes ==
    { [ status |-> "ok", gets |-> n, body |-> p ] :
        n \in 1..Len(sitemap_urls), p \in Pages } \cup
    { [ status |-> "none", gets |-> Len(sitemap_urls), body |-> {} ] }

extract_from_sitemap(resp) ==
    IF resp.status = "ok" THEN Accepted(resp.body) ELSE {}

-----------------------------------------------------------------------------
(* main() of src/extractor.py: the extraction block                         *)

Auto == "Auto (Requests + Selenium)"
RequestsOnly == "Requests Only (Fast)"
SeleniumOnly == "Selenium Only (Thorough)"
Methods == { Auto, RequestsOnly, SeleniumOnly }

\* the literal 3 of "len(all_emails) < 3"
EscalationThreshold == 3

should_use_selenium_le(method, n) ==
    \/ method = SeleniumOnly
    \/ method = Auto /\ n <= EscalationThreshold

should_use_selenium(method, n) ==
    \/ method = SeleniumOnly
    \/ method = Auto /\ n < EscalationThreshold

should_use_sitemap_if_few(include, n) == include /\ n < EscalationThreshold

\* "if include_sitemap:"; the size of the running set plays no part
should_use_sitemap(include, n) == include

NoCalls == [ requests |-> 0, selenium |-> 0, sitemap |-> 0 ]

\* "http://" and "https://"
SchemeHttp == <<"h","t","t","p",":","/","/">>
SchemeHttps == <<"h","t","t","p","s",":","/","/">>

StartsWith(s, prefix) ==
    Len(s) >= Len(prefix) /\ SubSeq(s, 1, Len(prefix)) = prefix

HasScheme(s) == StartsWith(s, SchemeHttp) \/ StartsWith(s, SchemeHttps)

\* what follows the scheme, up to the first '/'
UrlHost(s) ==
    LET rest == IF StartsWith(s, SchemeHttps)
                THEN SubSeq(s, Len(SchemeHttps) + 1, Len(s))
                ELSE SubSeq(s, Len(SchemeHttp) + 1, Len(s))
        slashes == Positions(rest, "/")
    IN  IF slashes = {} THEN rest
        ELSE SubSeq(rest, 1,
                 (CHOOSE i \in slashes : \A j \in slashes : i <= j) - 1)

\* a host of non-empty dot-separated labels, a name or a dotted quad
HostSyntax(h) ==
    /\ Len(h) >= 1
    /\ Range(h) \subseteq DomainAlphabet
    /\ Positions(h, ".") # {}
    /\ 1 \notin Positions(h, ".")
    /\ Len(h) \notin Positions(h, ".")
    /\ \A i \in Positions(h, ".") : i + 1 \notin Positions(h, ".")

\* the scheme is not asked for
validators_url_any_scheme(s) ==
    IF HasScheme(s) THEN HostSyntax(UrlHost(s)) ELSE HostSyntax(s)

\* validators.url(url) of the validators package: a scheme, then a host;
\* private and loopback hosts pass (its public argument defaults to False)
validators_url(s) == HasScheme(s) /\ HostSyntax(UrlHost(s))

\* website = 'https://' + website when it starts with neither scheme: the
\* local copy validate_company_data validates
normalized_website(website) ==
    IF HasScheme(website) THEN website ELSE SchemeHttps \o website

\* what the user may have typed into the URL field
UrlInputs ==
    { <<"h","t","t","p","s",":","/","/","a","c","m","e",".","i","o">>,
      <<"a","c","m","e",".","i","o">>,
      <<"h","t","t","p","s",":","/","/">>,
      << >> }

\* URLs of loopback and private-network hosts
PrivateUrls ==
    { <<"h","t","t","p",":","/","/","1","2","7",".","0",".","0",".","1">>,
      <<"h","t","t","p",":","/","/","1","9","2",".","1","6","8",".","0",".","1","/","a">> }

\* AppConfig.RESTRICT_PRIVATE_IPS with the environment variable unset; no
\* code reads it
RESTRICT_PRIVATE_IPS == TRUE

requests_catches_http_only(resp) == resp.status = "http_error"

\* "except Exception" of extract_with_requests: every failure of the GET
requests_catches(resp) == resp.status \in {"http_error", "network_error"}

\* the three except clauses of extract_with_selenium
selenium_catches(resp) ==
    \/ resp.status = "timeout"
    \/ resp.status = "webdriver_error"
    \/ resp.status = "driver_failed"

uses_requests_only(method) == method = RequestsOnly

\* extraction_method in ["Auto (Requests + Selenium)", "Requests Only (Fast)"]
uses_requests(method) == method \in { Auto, RequestsOnly }

\* "if all_emails:" success with the list, else the warning
results_display(all) == IF all # {} THEN "found" ELSE "no_emails"

ExInitWith(urls) ==
    /\ extraction_method \in Methods
    /\ include_sitemap \in BOOLEAN
    /\ url \in urls
    /\ epc = "input"
    /\ display = "none"
    /\ all_emails = {}
    /\ requests_emails = {}
    /\ selenium_emails = {}
    /\ sitemap_emails = {}
    /\ static_resp = NoResp
    /\ rendered_resp = NoResp
    /\ sitemap_resp = NoResp
    /\ calls = NoCalls

ExInit == ExInitWith(UrlInputs)

\* URL validation, then "if extract_button and url:" with the button pressed
UrlValidation ==
    /\ epc = "input"
    /\ IF url # << >> /\ ~ validators_url(url)
       THEN epc' = "rejected" /\ display' = "invalid_url"
       ELSE IF url = << >>
       THEN epc' = "skipped" /\ display' = display
       ELSE epc' = "requests" /\ display' = display
    /\ UNCHANGED << extraction_method, include_sitemap, url, all_emails,
                    requests_emails, selenium_emails, sitemap_emails,
                    static_resp, rendered_resp, sitemap_resp, calls >>
    /\ UNCHANGED notEx

\* Method 1: Requests; an exception the fetcher lets through ends the block
\* in main()'s "except Exception"
MethodRequests ==
    /\ epc = "requests"
    /\ uses_requests(extraction_method)
    /\ \E resp \in StaticOutcomes :
          /\ static_resp' = resp
          /\ IF resp.status = "ok" \/ requests_catches(resp)
             THEN /\ requests_emails' = extract_with_requests(resp)
                  /\ all_emails' = all_emails \cup requests_emails'
                  /\ epc' = "selenium"
                  /\ display' = display
             ELSE /\ UNCHANGED << requests_emails, all_emails >>
                  /\ epc' = "done"
                  /\ display' = "error"
    /\ calls' = [ calls EXCEPT !.requests = @ + 1 ]
    /\ UNCHANGED << extraction_method, include_sitemap, url, selenium_emails,
                    sitemap_emails, rendered_resp, sitemap_resp >>
    /\ UNCHANGED notEx

SkipRequests ==
    /\ epc = "requests"
    /\ ~ uses_requests(extraction_method)
    /\ epc' = "selenium"
    /\ UNCHANGED << extraction_method, include_sitemap, url, display,
                    all_emails, requests_emails, selenium_emails,
                    sitemap_emails, static_resp, rendered_resp, sitemap_resp,
                    calls >>
    /\ UNCHANGED notEx

\* Method 2: Selenium (if needed or requested)
MethodSelenium ==
    /\ epc = "selenium"
    /\ extraction_method \in { Auto, SeleniumOnly }
    /\ should_use_selenium(extraction_method, Cardinality(all_emails))
    /\ \E resp \in RenderedOutcomes :
          /\ rendered_resp' = resp
          /\ IF resp.status = "ok" \/ selenium_catches(resp)
             THEN /\ selenium_emails' = extract_with_selenium(resp)
                  /\ all_emails' = all_emails \cup selenium_emails'
                  /\ epc' = "sitemap"
                  /\ display' = display
             ELSE /\ UNCHANGED << selenium_emails, all_emails >>
                  /\ epc' = "done"
                  /\ display' = "error"
    /\ calls' = [ calls EXCEPT !.selenium = @ + 1 ]
    /\ UNCHANGED << extraction_method, include_sitemap, url, requests_emails,
                    sitemap_emails, static_resp, sitemap_resp >>
    /\ UNCHANGED notEx

SkipSelenium ==
    /\ epc = "selenium"
    /\ ~ ( /\ extraction_method \in { Auto, SeleniumOnly }
           /\ should_use_selenium(extraction_method, Cardinality(all_emails)) )
    /\ epc' = "sitemap"
    /\ UNCHANGED << extraction_method, include_sitemap, url, display,
                    all_emails, requests_emails, selenium_emails,
                    sitemap_emails, static_resp, rendered_resp, sitemap_resp,
                    calls >>
    /\ UNCHANGED notEx

\* Method 3: Sitemap, then the display of the results
MethodSitemap ==
    /\ epc = "sitemap"
    /\ should_use_sitemap(include_sitemap, Cardinality(all_emails))
    /\ \E resp \in SitemapOutcomes :
          /\ sitemap_resp' = resp
          /\ sitemap_emails' = extract_from_sitemap(resp)
    /\ all_emails' = all_emails \cup sitemap_emails'
    /\ calls' = [ calls EXCEPT !.sitemap = @ + 1 ]
    /\ epc' = "done"
    /\ display' = results_display(all_emails')
    /\ UNCHANGED << extraction_method, include_sitemap, url, requests_emails,
                    selenium_emails, static_resp, rendered_resp >>
    /\ UNCHANGED notEx

SkipSitemap ==
    /\ epc = "sitemap"
    /\ ~ should_use_sitemap(include_sitemap, Cardinality(all_emails))
    /\ epc' = "done"
    /\ display' = results_display(all_emails)
    /\ UNCHANGED << extraction_method, include_sitemap, url, all_emails,
                    requests_emails, selenium_emails, sitemap_emails,
                    static_resp, rendered_resp, sitemap_resp, calls >>
    /\ UNCHANGED notEx

ExNext ==
    \/ UrlValidation
    \/ MethodRequests
    \/ SkipRequests
    \/ MethodSelenium
    \/ SkipSelenium
    \/ MethodSitemap
    \/ SkipSitemap

-----------------------------------------------------------------------------
(* The candidate loop shared by the fetchers:                               *)
(*   for email in found_emails:                                             *)
(*       if self._is_valid_email(email): emails.add(email.lower())          *)

\* further candidate strings given to the validator
MoreInputs ==
    { <<"d","e","v","@","G","i","t","H","u","b",".","c","o","m">>,
      <<"i","n","f","o","@","e","x","a","m","p","l","e",".","o","r","g">>,
      <<"D","e","m","o","@","a","c","m","e",".","i","o">>,
      <<"x","@","R","e","d","d","i","t",".","c","o","m">>,
      <<"N","o","R","e","p","l","y","@","a","c","m","e",".","i","o">>,
      <<"a","@","b">>,
      <<"n","o","b","o","d","y">> }

ValidatorInputs == Range(Raw) \cup MoreInputs

\* the largest number of candidates in one scanned document
MaxFound == 2

NoVerdict == [ checked |-> FALSE, email |-> << >>, accepted |-> FALSE ]

ScanIdle ==
    /\ found_emails = << >>
    /\ scan_pos = 0
    /\ emails = {}
    /\ verdict = NoVerdict

ScanInit ==
    /\ found_emails \in UNION { [ 1..n -> ValidatorInputs ] : n \in 0..MaxFound }
    /\ scan_pos = 0
    /\ emails = {}
    /\ verdict = NoVerdict

ScanNext ==
    /\ scan_pos < Len(found_emails)
    /\ LET email == found_emails[scan_pos + 1]
           ok    == _is_valid_email(email)
       IN  /\ verdict' = [ checked |-> TRUE, email |-> email, accepted |-> ok ]
           /\ emails' = IF ok THEN emails \cup { Canonical(email) } ELSE emails
    /\ scan_pos' = scan_pos + 1
    /\ UNCHANGED found_emails
    /\ UNCHANGED notScan

ExIdle ==
    /\ extraction_method = Auto
    /\ include_sitemap = TRUE
    /\ url = << >>
    /\ epc = "idle"
    /\ display = "none"
    /\ all_emails = {}
    /\ requests_emails = {}
    /\ selenium_emails = {}
    /\ sitemap_emails = {}
    /\ static_resp = NoResp
    /\ rendered_resp = NoResp
    /\ sitemap_resp = NoResp
    /\ calls = NoCalls

-----------------------------------------------------------------------------
(* OpenRouterClient of src/company_lookup_app.py and main()'s use of it     *)

\* bounds of the two sliders of main() and of the clock
MaxDelay == 2
MaxRetries == 3
Horizon == 16
MaxLatency == 1

\* the largest max_retries of callers that share one client
SharedRetries == 1

\* time.time() is far beyond any delay when the client is constructed with
\* last_request_time = 0, so the first call never sleeps
StartClock == MaxDelay
MaxClock == StartClock + Horizon

Threads == {1, 2}

\* Python values of main()'s variable "result"
Unbound == [ kind |-> "unbound", text |-> "" ]
PyNone == [ kind |-> "None", text |-> "" ]
PyStr(s) == [ kind |-> "str", text |-> s ]

\* "not result" of main(): None and the empty string are both falsy
Falsy(r) == r.kind = "None" \/ ( r.kind = "str" /\ r.text = "" )

\* the message contents a 200 response may carry
Contents == { "", "| Name | Role |" }

\* what one POST of query_model may end with
QueryOutcomes ==
    { [ status |-> "200", content |-> c ] : c \in Contents } \cup
    { [ status |-> s, content |-> "" ] :
        s \in { "200_no_choices", "429", "other", "timeout", "request_error" } }

SleepTimeElapsed(elapsed, delay) == elapsed

\* time.sleep(self.rate_limit_delay - elapsed)
SleepTime(elapsed, delay) == delay - elapsed

RateLimitWaitFromZero(a) == a * 5

\* wait_time = (attempt + 1) * 5
RateLimitWait(a) == (a + 1) * 5

BackoffLinear(a) == 2 * a

\* time.sleep(2 ** attempt)
Backoff(a) == 2 ^ a

\* "if attempt < max_retries - 1"
SleepsAfterError(a, retries) == a < retries - 1

NoLog == [ op |-> "none", nreq |-> 0, start_at |-> 0, last_status |-> "none",
           resp_at |-> 0, waited |-> 0, err_at |-> 0 ]

ClIdle ==
    /\ now = 0
    /\ rate_limit_delay = 0
    /\ max_retries = 0
    /\ last_request_time = 0
    /\ callers = {}
    /\ cpc = [ c \in Threads |-> "off" ]
    /\ attempt = [ c \in Threads |-> 0 ]
    /\ wake = [ c \in Threads |-> 0 ]
    /\ result = [ c \in Threads |-> Unbound ]
    /\ shown = [ c \in Threads |-> "nothing" ]
    /\ reqlog = [ c \in Threads |-> NoLog ]
    /\ starts = << >>

\* OpenRouterClient.__init__ and the callers about to use the instance
ClInit(cs, retries) ==
    /\ now = StartClock
    /\ rate_limit_delay \in 1..MaxDelay
    /\ max_retries \in 1..retries
    /\ last_request_time = 0
    /\ callers = cs
    /\ cpc = [ c \in Threads |-> IF c \in cs THEN "main" ELSE "off" ]
    /\ attempt = [ c \in Threads |-> 0 ]
    /\ wake = [ c \in Threads |-> 0 ]
    /\ result = [ c \in Threads |-> Unbound ]
    /\ shown = [ c \in Threads |-> "nothing" ]
    /\ reqlog = [ c \in Threads |-> NoLog ]
    /\ starts = << >>

\* a caller waits for something that takes time: the answer to a request
\* in flight, the user at the form, or the end of a time.sleep
Waiting(c) ==
    \/ cpc[c] = "await" /\ now - reqlog[c].start_at < MaxLatency
    \/ cpc[c] = "form" /\ now - reqlog[c].start_at < MaxLatency + MaxDelay
    \/ cpc[c] \in { "rl_sleep", "sleep_429", "sleep_exc" } /\ now < wake[c]

\* the clock advances while some caller waits; the statements between two
\* waits take no time at the clock's resolution of one second
Tick ==
    /\ now < MaxClock
    /\ \E c \in callers : Waiting(c)
    /\ now' = now + 1
    /\ UNCHANGED << rate_limit_delay, max_retries, last_request_time, callers,
                    cpc, attempt, wake, result, shown, reqlog, starts >>
    /\ UNCHANGED notCl

\* main(): models = client.get_available_models()
CallModels(c) ==
    /\ cpc[c] = "main"
    /\ cpc' = [ cpc EXCEPT ![c] = "rl_read" ]
    /\ reqlog' = [ reqlog EXCEPT ![c] = [ NoLog EXCEPT !.op = "models" ] ]
    /\ UNCHANGED << now, rate_limit_delay, max_retries, last_request_time,
                    callers, attempt, wake, result, shown, starts >>
    /\ UNCHANGED notCl

\* _wait_for_rate_limit: elapsed = time.time() - self.last_request_time;
\* if elapsed < self.rate_limit_delay: time.sleep(...)
WaitRead(c) ==
    /\ cpc[c] = "rl_read"
    /\ LET elapsed == now - last_request_time
       IN  IF elapsed < rate_limit_delay
           THEN /\ wake' = [ wake EXCEPT ![c] =
                               now + SleepTime(elapsed, rate_limit_delay) ]
                /\ cpc' = [ cpc EXCEPT ![c] = "rl_sleep" ]
           ELSE /\ cpc' = [ cpc EXCEPT ![c] = "rl_stamp" ]
                /\ UNCHANGED wake
    /\ UNCHANGED << now, rate_limit_delay, max_retries, last_request_time,
                    callers, attempt, result, shown, reqlog, starts >>
    /\ UNCHANGED notCl

\* time.sleep returns once the clock has reached the end of the sleep
WaitSleep(c) ==
    /\ cpc[c] = "rl_sleep"
    /\ now >= wake[c]
    /\ cpc' = [ cpc EXCEPT ![c] = "rl_stamp" ]
    /\ UNCHANGED << now, rate_limit_delay, max_retries, last_request_time,
                    callers, attempt, wake, result, shown, reqlog, starts >>
    /\ UNCHANGED notCl

\* self.last_request_time = time.time(), and the request that follows it
\* (requests.get / requests.post) starts: a request's start time is the
\* time stamped here
WaitStamp(c) ==
    /\ cpc[c] = "rl_stamp"
    /\ last_request_time' = now
    /\ starts' = IF starts = << >> THEN << [ at |-> now, by |-> c ] >>
                 ELSE << starts[Len(starts)], [ at |-> now, by |-> c ] >>
    /\ reqlog' = [ reqlog EXCEPT ![c].nreq = @ + 1, ![c].start_at = now ]
    /\ cpc' = [ cpc EXCEPT ![c] = "await" ]
    /\ UNCHANGED << now, rate_limit_delay, max_retries, callers, attempt,
                    wake, result, shown >>
    /\ UNCHANGED notCl

\* get_available_models returns: a non-empty list lets main() go on, an
\* empty list (also on any error) makes main() stop
ModelsReturn(c) ==
    /\ cpc[c] = "await"
    /\ reqlog[c].op = "models"
    /\ \E ok \in BOOLEAN :
          cpc' = [ cpc EXCEPT ![c] = IF ok THEN "form" ELSE "stopped" ]
    /\ UNCHANGED << now, rate_limit_delay, max_retries, last_request_time,
                    callers, attempt, wake, result, shown, reqlog, starts >>
    /\ UNCHANGED notCl

\* main(): the search button is not pressed and the script run ends
NoSearch(c) ==
    /\ cpc[c] = "form"
    /\ cpc' = [ cpc EXCEPT ![c] = "done" ]
    /\ UNCHANGED << now, rate_limit_delay, max_retries, last_request_time,
                    callers, attempt, wake, result, shown, reqlog, starts >>
    /\ UNCHANGED notCl

\* main(): result = client.query_model(model, prompt, max_retries);
\* "for attempt in range(max_retries)" starts with attempt = 0
CallQuery(c) ==
    /\ cpc[c] = "form"
    /\ attempt' = [ attempt EXCEPT ![c] = 0 ]
    /\ reqlog' = [ reqlog EXCEPT ![c] = [ NoLog EXCEPT !.op = "query" ] ]
    /\ cpc' = [ cpc EXCEPT ![c] = "rl_read" ]
    /\ UNCHANGED << now, rate_limit_delay, max_retries, last_request_time,
                    callers, wake, result, shown, starts >>
    /\ UNCHANGED notCl

\* the next iteration of "for attempt in range(max_retries)", or
\* "return None" when the range is exhausted
NextAttempt(c, a) ==
    IF a + 1 < max_retries
    THEN /\ attempt' = [ attempt EXCEPT ![c] = a + 1 ]
         /\ cpc' = [ cpc EXCEPT ![c] = "rl_read" ]
         /\ UNCHANGED result
    ELSE /\ attempt' = [ attempt EXCEPT ![c] = a + 1 ]
         /\ cpc' = [ cpc EXCEPT ![c] = "returned" ]
         /\ result' = [ result EXCEPT ![c] = PyNone ]

\* one POST of query_model ends
QueryResponse(c) ==
    /\ cpc[c] = "await"
    /\ reqlog[c].op = "query"
    /\ \E out \in QueryOutcomes :
          LET seen == [ reqlog[c] EXCEPT !.last_status = out.status,
                                         !.resp_at = now, !.waited = 0 ]
          IN
          CASE out.status = "200" ->
                 /\ result' = [ result EXCEPT ![c] = PyStr(out.content) ]
                 /\ cpc' = [ cpc EXCEPT ![c] = "returned" ]
                 /\ reqlog' = [ reqlog EXCEPT ![c] = seen ]
                 /\ UNCHANGED << attempt, wake >>
            [] out.status = "200_no_choices" ->
                 /\ cpc' = [ cpc EXCEPT ![c] = "raised" ]
                 /\ reqlog' = [ reqlog EXCEPT ![c] = seen ]
                 /\ UNCHANGED << attempt, wake, result >>
            [] out.status = "429" ->
                 /\ wake' = [ wake EXCEPT ![c] = now + RateLimitWait(attempt[c]) ]
                 /\ cpc' = [ cpc EXCEPT ![c] = "sleep_429" ]
                 /\ reqlog' = [ reqlog EXCEPT ![c] =
                       [ seen EXCEPT !.waited = RateLimitWait(attempt[c]) ] ]
                 /\ UNCHANGED << attempt, result >>
            [] out.status = "other" ->
                 /\ reqlog' = [ reqlog EXCEPT ![c] =
                       [ seen EXCEPT !.err_at =
                           IF @ = 0 THEN reqlog[c].nreq ELSE @ ] ]
                 /\ NextAttempt(c, attempt[c])
                 /\ UNCHANGED wake
            [] out.status \in { "timeout", "request_error" } ->
                 IF SleepsAfterError(attempt[c], max_retries)
                 THEN /\ wake' = [ wake EXCEPT ![c] = now + Backoff(attempt[c]) ]
                      /\ cpc' = [ cpc EXCEPT ![c] = "sleep_exc" ]
                      /\ reqlog' = [ reqlog EXCEPT ![c] =
                            [ seen EXCEPT !.waited = Backoff(attempt[c]) ] ]
                      /\ UNCHANGED << attempt, result >>
                 ELSE /\ reqlog' = [ reqlog EXCEPT ![c] = seen ]
                      /\ NextAttempt(c, attempt[c])
                      /\ UNCHANGED wake
    /\ UNCHANGED << now, rate_limit_delay, max_retries, last_request_time,
                    callers, shown, starts >>
    /\ UNCHANGED notCl

\* time.sleep(wait_time) or time.sleep(2 ** attempt) returns and the loop
\* goes on
BackoffDone(c) ==
    /\ cpc[c] \in { "sleep_429", "sleep_exc" }
    /\ now >= wake[c]
    /\ NextAttempt(c, attempt[c])
    /\ UNCHANGED << now, rate_limit_delay, max_retries, last_request_time,
                    callers, wake, shown, reqlog, starts >>
    /\ UNCHANGED notCl

\* main(): "if not result: st.error(...); return", else the results are
\* displayed; an exception out of query_model reaches main()'s handler
ShowResult(c) ==
    /\ cpc[c] \in { "returned", "raised" }
    /\ shown' = [ shown EXCEPT ![c] =
                    IF cpc[c] = "raised" THEN "exception"
                    ELSE IF Falsy(result[c]) THEN "failed" ELSE "results" ]
    /\ cpc' = [ cpc EXCEPT ![c] = "done" ]
    /\ UNCHANGED << now, rate_limit_delay, max_retries, last_request_time,
                    callers, attempt, wake, result, reqlog, starts >>
    /\ UNCHANGED notCl

ClNext ==
    \/ Tick
    \/ \E c \in callers : CallModels(c)
    \/ \E c \in callers : WaitRead(c)
    \/ \E c \in callers : WaitSleep(c)
    \/ \E c \in callers : WaitStamp(c)
    \/ \E c \in callers : ModelsReturn(c)
    \/ \E c \in callers : NoSearch(c)
    \/ \E c \in callers : CallQuery(c)
    \/ \E c \in callers : QueryResponse(c)
    \/ \E c \in callers : BackoffDone(c)
    \/ \E c \in callers : ShowResult(c)

-----------------------------------------------------------------------------
(* EmailAnalyzer.categorize_emails                                          *)

\* the keys of the local dict categories, in insertion order
CategoryNames ==
    << "general", "sales", "support", "info", "admin", "personal" >>

\* the local dict patterns, in insertion order

patterns ==
    << [ category |-> "sales",
         pattern_list |-> << <<"s","a","l","e","s">>,
                             <<"b","u","s","i","n","e","s","s">>,
                             <<"c","o","m","m","e","r","c","i","a","l">> >> ],
       [ category |-> "support",
         pattern_list |-> << <<"s","u","p","p","o","r","t">>,
                             <<"h","e","l","p">>,
                             <<"s","e","r","v","i","c","e">> >> ],
       [ category |-> "info",
         pattern_list |-> << <<"i","n","f","o">>,
                             <<"c","o","n","t","a","c","t">>,
                             <<"h","e","l","l","o">> >> ],
       [ category |-> "admin",
         pattern_list |-> << <<"a","d","m","i","n">>,
                             <<"w","e","b","m","a","s","t","e","r">>,
                             <<"p","o","s","t","m","a","s","t","e","r">> >> ] >>

\* EmailPatterns.CATEGORY_PATTERNS of config/settings.py, in insertion order;
\* categorize_emails does not read it

CATEGORY_PATTERNS ==
    << [ category |-> "sales",
         pattern_list |-> << <<"s","a","l","e","s">>,
                             <<"b","u","s","i","n","e","s","s">>,
                             <<"c","o","m","m","e","r","c","i","a","l">>,
                             <<"r","e","v","e","n","u","e">>,
                             <<"p","a","r","t","n","e","r","s","h","i","p","s">>,
                             <<"e","n","t","e","r","p","r","i","s","e">>,
                             <<"a","c","c","o","u","n","t","s">> >> ],
       [ category |-> "support",
         pattern_list |-> << <<"s","u","p","p","o","r","t">>,
                             <<"h","e","l","p">>,
                             <<"s","e","r","v","i","c","e">>,
                             <<"a","s","s","i","s","t","a","n","c","e">>,
                             <<"h","e","l","p","d","e","s","k">>,
                             <<"c","a","r","e">>,
                             <<"t","i","c","k","e","t">> >> ],
       [ category |-> "info",
         pattern_list |-> << <<"i","n","f","o">>,
                             <<"c","o","n","t","a","c","t">>,
                             <<"h","e","l","l","o">>,
                             <<"g","e","n","e","r","a","l">>,
                             <<"i","n","q","u","i","r","y">>,
                             <<"q","u","e","s","t","i","o","n","s">> >> ],
       [ category |-> "admin",
         pattern_list |-> << <<"a","d","m","i","n">>,
                             <<"w","e","b","m","a","s","t","e","r">>,
                             <<"p","o","s","t","m","a","s","t","e","r">>,
                             <<"s","y","s","t","e","m">>,
                             <<"t","e","c","h","n","i","c","a","l">>,
                             <<"i","t">>,
                             <<"t","e","c","h">> >> ],
       [ category |-> "marketing",
         pattern_list |-> << <<"m","a","r","k","e","t","i","n","g">>,
                             <<"p","r","o","m","o">>,
                             <<"n","e","w","s","l","e","t","t","e","r">>,
                             <<"c","a","m","p","a","i","g","n">>,
                             <<"s","o","c","i","a","l">>,
                             <<"m","e","d","i","a">>,
                             <<"p","r">> >> ],
       [ category |-> "hr",
         pattern_list |-> << <<"h","r">>,
                             <<"h","u","m","a","n">>,
                             <<"r","e","s","o","u","r","c","e","s">>,
                             <<"r","e","c","r","u","i","t","m","e","n","t">>,
                             <<"c","a","r","e","e","r","s">>,
                             <<"j","o","b","s">>,
                             <<"t","a","l","e","n","t">> >> ] >>

\* the addresses the categorizer is applied to

CategorizerInputs ==
    { <<"s","a","l","e","s","@","a","c","m","e",".","i","o">>,
      <<"S","a","l","e","s","S","u","p","p","o","r","t","@","a","c","m","e",".","i","o">>,
      <<"H","e","l","p","@","a","c","m","e",".","i","o">>,
      <<"c","o","n","t","a","c","t","@","a","c","m","e",".","i","o">>,
      <<"j",".","a","d","m","i","n","@","a","c","m","e",".","i","o">>,
      <<"m","a","r","k","e","t","i","n","g","@","a","c","m","e",".","i","o">>,
      <<"h","r","@","a","c","m","e",".","i","o">>,
      <<"a",".","b","@","a","c","m","e",".","i","o">>,
      <<"b","o","b","@","a","c","m","e",".","i","o">>,
      <<"J","a","n","e",".","D","o","e","@","a","c","m","e",".","i","o">> }

MaxList == 2

\* the lists of distinct addresses of length n
RECURSIVE DistinctLists(_)
DistinctLists(n) ==
    IF n = 0 THEN { << >> }
    ELSE UNION { { Append(l, e) : e \in CategorizerInputs \ Range(l) } :
                 l \in DistinctLists(n - 1) }

\* email.split('@')[0].lower()
local_part(email) == Lower(LocalPart(email))

\* the two nested loops over patterns.items() of any such dict: the category
\* of the first entry one of whose patterns re.search finds, "none" when the
\* loops end with categorized still False
FirstMatch(local, pats) ==
    LET hits == { i \in 1..Len(pats) :
                    \E j \in 1..Len(pats[i].pattern_list) :
                        Contains(local, pats[i].pattern_list[j]) }
    IN  IF hits = {} THEN "none"
        ELSE pats[CHOOSE i \in hits : \A k \in hits : i <= k].category

\* both breaks left out: every category with a matching pattern
AllMatches(local, pats) ==
    { pats[i].category : i \in { k \in 1..Len(pats) :
        \E j \in 1..Len(pats[k].pattern_list) :
            Contains(local, pats[k].pattern_list[j]) } }

\* the two breaks: the lists an address is appended to by the pattern loops
Matched(local, pats) ==
    IF FirstMatch(local, pats) = "none" THEN {}
    ELSE { FirstMatch(local, pats) }

\* '.' in local_part or len(local_part.split('.')) > 1
\* (str.split('.') yields one more piece than there are periods)
LooksPersonal(local) ==
    "." \in Range(local) \/ Cardinality(Positions(local, ".")) + 1 > 1

FallbackAlwaysGeneral(local) == "general"

\* the branch taken when categorized is False
Fallback(local) == IF LooksPersonal(local) THEN "personal" ELSE "general"

\* the lists one iteration of the loop appends the address to
Appended(email) ==
    LET local == local_part(email)
    IN  IF Matched(local, patterns) # {} THEN Matched(local, patterns)
        ELSE { Fallback(local) }

NotReturned == [ returned |-> FALSE, dict |-> << >> ]

CatIdle ==
    /\ cat_emails = << >>
    /\ cat_pos = 0
    /\ categories = [ k \in Range(CategoryNames) |-> << >> ]
    /\ cat_result = [ returned |-> TRUE, dict |-> << >> ]

\* categorize_emails is entered with a list of distinct addresses
CatInit ==
    /\ cat_emails \in UNION { DistinctLists(n) : n \in 0..MaxList }
    /\ cat_pos = 0
    /\ categories = [ k \in Range(CategoryNames) |-> << >> ]
    /\ cat_result = NotReturned

\* one iteration of: for email in emails
CategorizeOne ==
    /\ ~cat_result.returned
    /\ cat_pos < Len(cat_emails)
    /\ LET email == cat_emails[cat_pos + 1]
       IN  categories' = [ k \in Range(CategoryNames) |->
                             IF k \in Appended(email)
                             THEN Append(categories[k], email)
                             ELSE categories[k] ]
    /\ cat_pos' = cat_pos + 1
    /\ UNCHANGED << cat_emails, cat_result >>
    /\ UNCHANGED notCat

\* return {k: v for k, v in categories.items() if v}
CategorizeReturn ==
    /\ ~cat_result.returned
    /\ cat_pos = Len(cat_emails)
    /\ cat_result' =
           [ returned |-> TRUE,
             dict |-> [ k \in { c \in Range(CategoryNames) :
                                  categories[c] # << >> } |-> categories[k] ] ]
    /\ UNCHANGED << cat_emails, cat_pos, categories >>
    /\ UNCHANGED notCat

CatNext == CategorizeOne \/ CategorizeReturn

-----------------------------------------------------------------------------
(* EmailExtractor.extract_with_selenium and _configure_selenium, step by    *)
(* step                                                                     *)

NoReturn == [ returned |-> FALSE, value |-> {} ]

\* what find_elements may yield for the contact sections: their text
SectionPages == { p \in Pages : Cardinality(p) <= 1 }

SelIdle ==
    /\ spc = "idle"
    /\ browser = "none"
    /\ driver = "None"
    /\ sel_page = {}
    /\ sel_emails = {}
    /\ sel_exc = "none"
    /\ sel_return = NoReturn

\* emails = set(); driver = None
SelInit ==
    /\ spc = "chrome"
    /\ browser = "none"
    /\ driver = "None"
    /\ sel_page \in Pages
    /\ sel_emails = {}
    /\ sel_exc = "none"
    /\ sel_return = NoReturn

\* _configure_selenium after webdriver.Chrome(...): "return driver" is
\* reached only if execute_script did not raise; otherwise the except
\* clause re-raises and the assignment in extract_with_selenium never runs
driver_after_script(script_ok) == IF script_ok THEN "session" ELSE "None"

\* _configure_selenium: driver = webdriver.Chrome(...), which starts the
\* browser process or raises
StartChrome ==
    /\ spc = "chrome"
    /\ \E started \in BOOLEAN :
          IF started
          THEN /\ browser' = "running"
               /\ spc' = "script"
               /\ UNCHANGED sel_exc
          ELSE /\ UNCHANGED browser
               /\ spc' = "finally"
               /\ sel_exc' = "Exception"
    /\ UNCHANGED << driver, sel_page, sel_emails, sel_return >>
    /\ UNCHANGED notSel

\* _configure_selenium: driver.execute_script(...); return driver, and the
\* assignment driver = self._configure_selenium()
ConfigureScript ==
    /\ spc = "script"
    /\ \E script_ok \in BOOLEAN :
          /\ driver' = driver_after_script(script_ok)
          /\ IF script_ok
             THEN spc' = "get" /\ UNCHANGED sel_exc
             ELSE spc' = "finally" /\ sel_exc' = "WebDriverException"
    /\ UNCHANGED << browser, sel_page, sel_emails, sel_return >>
    /\ UNCHANGED notSel

\* driver.get(url)
Navigate ==
    /\ spc = "get"
    /\ \E ok \in BOOLEAN :
          IF ok
          THEN spc' = "wait" /\ UNCHANGED sel_exc
          ELSE spc' = "finally" /\ sel_exc' = "WebDriverException"
    /\ UNCHANGED << browser, driver, sel_page, sel_emails, sel_return >>
    /\ UNCHANGED notSel

\* WebDriverWait(driver, 10).until(body present)
WaitForBody ==
    /\ spc = "wait"
    /\ \E ok \in BOOLEAN :
          IF ok
          THEN spc' = "scroll" /\ UNCHANGED sel_exc
          ELSE spc' = "finally" /\ sel_exc' = "TimeoutException"
    /\ UNCHANGED << browser, driver, sel_page, sel_emails, sel_return >>
    /\ UNCHANGED notSel

\* the scroll script, the sleep, and the scan of page_source: mailto links
\* and text content
ScrollAndScan ==
    /\ spc = "scroll"
    /\ \E ok \in BOOLEAN :
          IF ok
          THEN /\ sel_emails' = sel_emails \cup Accepted(sel_page)
               /\ spc' = "sections"
               /\ UNCHANGED sel_exc
          ELSE /\ UNCHANGED sel_emails
               /\ spc' = "finally"
               /\ sel_exc' = "WebDriverException"
    /\ UNCHANGED << browser, driver, sel_page, sel_return >>
    /\ UNCHANGED notSel

\* the inner try: find_elements and the scan of each section's text; an
\* exception is passed over
ContactSections ==
    /\ spc = "sections"
    /\ \/ \E sec \in SectionPages :
             sel_emails' = sel_emails \cup Accepted(sec)
       \/ UNCHANGED sel_emails
    /\ spc' = "finally"
    /\ UNCHANGED << browser, driver, sel_page, sel_exc, sel_return >>
    /\ UNCHANGED notSel

\* finally: if driver: driver.quit(); then the pending return: emails from
\* the try block, set() from an except clause
FinallyAndReturn ==
    /\ spc = "finally"
    /\ browser' = IF driver # "None" /\ browser = "running"
                  THEN "quit" ELSE browser
    /\ sel_return' = [ returned |-> TRUE,
                       value |-> IF sel_exc = "none" THEN sel_emails
                                 ELSE {} ]
    /\ spc' = "returned"
    /\ UNCHANGED << driver, sel_page, sel_emails, sel_exc >>
    /\ UNCHANGED notSel

SelNext ==
    \/ StartChrome
    \/ ConfigureScript
    \/ Navigate
    \/ WaitForBody
    \/ ScrollAndScan
    \/ ContactSections
    \/ FinallyAndReturn

-----------------------------------------------------------------------------
(* EmailExtractor.extract_from_sitemap, one location after the other        *)

MaxSitemapBody == 1

\* what one location may answer to requests.get(sitemap_url, timeout=5):
\* status 200 with a body, another status, or an exception
SitemapAnswers ==
    { [ kind |-> "200", body |-> p ] :
        p \in { q \in Pages : Cardinality(q) <= MaxSitemapBody } } \cup
    { [ kind |-> k, body |-> {} ] : k \in {"404", "raise"} }

SmIdle ==
    /\ sm_answers = << >>
    /\ sm_idx = 0
    /\ sm_emails = {}
    /\ sm_requested = << >>
    /\ sm_return = NoReturn

\* emails = set(); the list sitemap_urls is built
SmInit ==
    /\ sm_answers \in [ 1..Len(sitemap_urls) -> SitemapAnswers ]
    /\ sm_idx = 1
    /\ sm_emails = {}
    /\ sm_requested = << >>
    /\ sm_return = NoReturn

\* no break: the loop goes on to the next location after a 200 as well
next_location_no_break(kind, idx) == idx + 1

\* where the for loop goes after an answer: "break" after status 200 (past
\* the last location), the next location after another status (the if is
\* false) or an exception (continue)
next_location(kind, idx) ==
    IF kind = "200" THEN Len(sitemap_urls) + 1 ELSE idx + 1

\* one iteration of: for sitemap_url in sitemap_urls
ProbeSitemap ==
    /\ sm_idx \in 1..Len(sitemap_urls)
    /\ LET answer == sm_answers[sm_idx]
       IN  /\ sm_requested' = Append(sm_requested, sitemap_urls[sm_idx])
           /\ sm_emails' = IF answer.kind = "200"
                           THEN sm_emails \cup Accepted(answer.body)
                           ELSE sm_emails
           /\ sm_idx' = next_location(answer.kind, sm_idx)
    /\ UNCHANGED << sm_answers, sm_return >>
    /\ UNCHANGED notSm

\* return emails
SitemapReturn ==
    /\ sm_idx > Len(sitemap_urls)
    /\ ~ sm_return.returned
    /\ sm_return' = [ returned |-> TRUE, value |-> sm_emails ]
    /\ UNCHANGED << sm_answers, sm_idx, sm_emails, sm_requested >>
    /\ UNCHANGED notSm

SmNext == ProbeSitemap \/ SitemapReturn

-----------------------------------------------------------------------------
(* The time one request of main() spends in its blocking calls              *)

\* requests.get(url, headers=headers, timeout=10)
RequestsTimeout == 10

\* WebDriverWait(driver, 10)
WaitTimeout == 10

\* time.sleep(2)
ScrollSleep == 2

\* requests.get(sitemap_url, timeout=5)
SitemapTimeout == 5

\* how long a call with this timeout may take: it answers at once or runs
\* into the timeout
Durations(timeout) == { 0, timeout }

BgIdle ==
    /\ b_method = Auto
    /\ b_sitemap = TRUE
    /\ bpc = "idle"
    /\ b_idx = 0
    /\ b_found = 0
    /\ b_elapsed = 0
    /\ b_log = << >>

\* the extraction block is entered: all_emails = set()
BgInit ==
    /\ b_method \in Methods
    /\ b_sitemap \in BOOLEAN
    /\ bpc = "requests"
    /\ b_idx = 1
    /\ b_found = 0
    /\ b_elapsed = 0
    /\ b_log = << >>

\* the record of one blocking call: the timeout it was given and when
Handed(call, timeout) ==
    [ call |-> call, timeout |-> timeout, at |-> b_elapsed ]

\* Method 1: the GET with its literal timeout; a GET that answers finds
\* few addresses or enough of them
TimedRequests ==
    /\ bpc = "requests"
    /\ IF uses_requests(b_method)
       THEN \E d \in Durations(RequestsTimeout),
               n \in {0, EscalationThreshold} :
                /\ b_log' = Append(b_log, Handed("requests", RequestsTimeout))
                /\ b_elapsed' = b_elapsed + d
                /\ b_found' = IF d = RequestsTimeout THEN b_found
                              ELSE b_found + n
       ELSE UNCHANGED << b_log, b_elapsed, b_found >>
    /\ bpc' = "selenium"
    /\ UNCHANGED << b_method, b_sitemap, b_idx >>
    /\ UNCHANGED notBg

\* Method 2: the wait for the body with its literal timeout, then the sleep
\* after the scroll unless the wait timed out
TimedSelenium ==
    /\ bpc = "selenium"
    /\ IF /\ b_method \in { Auto, SeleniumOnly }
          /\ should_use_selenium(b_method, b_found)
       THEN \E d \in Durations(WaitTimeout) :
                /\ b_log' = Append(b_log, Handed("selenium", WaitTimeout))
                /\ b_elapsed' = b_elapsed + d
                       + ( IF d = WaitTimeout THEN 0 ELSE ScrollSleep )
       ELSE UNCHANGED << b_log, b_elapsed >>
    /\ bpc' = "sitemap"
    /\ UNCHANGED << b_method, b_sitemap, b_idx, b_found >>
    /\ UNCHANGED notBg

\* Method 3: one GET of the sitemap loop with its literal timeout
TimedSitemapProbe ==
    /\ bpc = "sitemap"
    /\ should_use_sitemap(b_sitemap, b_found)
    /\ b_idx \in 1..Len(sitemap_urls)
    /\ \E d \in Durations(SitemapTimeout), kind \in {"200", "404"} :
          /\ b_log' = Append(b_log, Handed("sitemap", SitemapTimeout))
          /\ b_elapsed' = b_elapsed + d
          /\ b_idx' = next_location(
                          IF d = SitemapTimeout THEN "raise" ELSE kind, b_idx)
    /\ UNCHANGED << b_method, b_sitemap, bpc, b_found >>
    /\ UNCHANGED notBg

\* the results are displayed
TimedFinish ==
    /\ bpc = "sitemap"
    /\ \/ ~ should_use_sitemap(b_sitemap, b_found)
       \/ b_idx > Len(sitemap_urls)
    /\ bpc' = "done"
    /\ UNCHANGED << b_method, b_sitemap, b_idx, b_found, b_elapsed, b_log >>
    /\ UNCHANGED notBg

BgNext ==
    \/ TimedRequests
    \/ TimedSelenium
    \/ TimedSitemapProbe
    \/ TimedFinish

-----------------------------------------------------------------------------
(* Specifications                                                           *)

\* one extraction request of src/extractor.py main()
Init ==
    ExInit /\ ScanIdle /\ ClIdle /\ CatIdle /\ SelIdle /\ SmIdle /\ BgIdle

Next == ExNext

Spec == Init /\ [][Next]_vars

\* one extraction request for the URL of a loopback or private-network host
PrivateInit ==
    /\ ExInitWith(PrivateUrls)
    /\ ScanIdle /\ ClIdle /\ CatIdle /\ SelIdle /\ SmIdle /\ BgIdle

PrivateNext == ExNext

SpecPrivate == PrivateInit /\ [][PrivateNext]_vars

\* the candidate loop applied to every short document over ValidatorInputs
ScanSpecInit ==
    ScanInit /\ ExIdle /\ ClIdle /\ CatIdle /\ SelIdle /\ SmIdle /\ BgIdle

ScanSpecNext == ScanNext

SpecValidator == ScanSpecInit /\ [][ScanSpecNext]_vars

\* one script run of src/company_lookup_app.py main(): one caller, whose
\* calls go through the client one after the other
ClientInit ==
    /\ ClInit({1}, MaxRetries)
    /\ ExIdle /\ ScanIdle /\ CatIdle /\ SelIdle /\ SmIdle /\ BgIdle

ClientNext == ClNext

SpecClient == ClientInit /\ [][ClientNext]_vars

\* two callers that share one client instance and interleave
SharedInit ==
    /\ ClInit(Threads, SharedRetries)
    /\ ExIdle /\ ScanIdle /\ CatIdle /\ SelIdle /\ SmIdle /\ BgIdle

SpecShared == SharedInit /\ [][ClientNext]_vars

\* EmailAnalyzer.categorize_emails applied to every short list of distinct
\* addresses over CategorizerInputs
CatSpecInit ==
    CatInit /\ ExIdle /\ ScanIdle /\ ClIdle /\ SelIdle /\ SmIdle /\ BgIdle

CatSpecNext == CatNext

SpecCategorizer == CatSpecInit /\ [][CatSpecNext]_vars

\* one call of extract_with_selenium, for every rendered document
SelSpecInit ==
    SelInit /\ ExIdle /\ ScanIdle /\ ClIdle /\ CatIdle /\ SmIdle /\ BgIdle

SelSpecNext == SelNext

SpecSelenium == SelSpecInit /\ [][SelSpecNext]_vars

\* one call of extract_from_sitemap, for every combination of answers
SmSpecInit ==
    SmInit /\ ExIdle /\ ScanIdle /\ ClIdle /\ CatIdle /\ SelIdle /\ BgIdle

SmSpecNext == SmNext

SpecSitemap == SmSpecInit /\ [][SmSpecNext]_vars

\* one extraction request of main(), with the time its blocking calls take
BgSpecInit ==
    /\ BgInit
    /\ ExIdle /\ ScanIdle /\ ClIdle /\ CatIdle /\ SelIdle /\ SmIdle

BgSpecNext == BgNext

SpecBudget == BgSpecInit /\ [][BgSpecNext]_vars

-----------------------------------------------------------------------------
(* Properties of the extraction block (checked under Spec)                  *)

\* C1: extract_with_selenium is invoked at most once per request, and once
\* the escalation decision is taken it has been invoked exactly when the
\* method is Selenium-only, or the method is Auto and the running set after
\* the static fetch holds fewer than 3 addresses (2: invoked; 3, 4: not);
\* in Requests-only it is never invoked.
C1_SeleniumIffEscalation ==
    /\ calls.selenium \in {0, 1}
    /\ epc \in {"requests", "selenium"} => calls.selenium = 0
    /\ epc \in {"sitemap", "done"} =>
          ( calls.selenium = 1 <=>
              \/ extraction_method = SeleniumOnly
              \/ /\ extraction_method = Auto
                 /\ Cardinality(requests_emails) < 3 )
    /\ ( /\ epc \in {"sitemap", "done"}
         /\ extraction_method = Auto
         /\ Cardinality(requests_emails) = 2 ) => calls.selenium = 1
    /\ ( /\ epc \in {"sitemap", "done"}
         /\ extraction_method = Auto
         /\ Cardinality(requests_emails) \in {3, 4} ) => calls.selenium = 0
    /\ extraction_method = RequestsOnly => calls.selenium = 0

\* a finished Auto request whose static fetch found exactly 3 addresses
C1_Witness ==
    /\ epc = "done"
    /\ extraction_method = Auto
    /\ static_resp.status = "ok"
    /\ Cardinality(requests_emails) = 3
    /\ calls.selenium = 0

\* C2: with sitemap search enabled extract_from_sitemap is invoked exactly
\* once per request, whatever the method and the size of the running set,
\* and every address accepted from the sitemap body is in the final set;
\* with sitemap search disabled it is never invoked.
C2_SitemapAlwaysMerged ==
    /\ calls.sitemap \in {0, 1}
    /\ ~ include_sitemap => calls.sitemap = 0
    /\ epc # "done" => calls.sitemap = 0
    /\ ( epc = "done" /\ include_sitemap ) =>
          /\ calls.sitemap = 1
          /\ sitemap_emails \subseteq all_emails
          /\ sitemap_resp.status = "ok" =>
                \A e \in sitemap_resp.body :
                    _is_valid_email(e) => Lower(e) \in all_emails

\* a finished request whose running set already held 3 or more addresses
\* and whose sitemap contributed an address no other strategy found
C2_Witness ==
    /\ epc = "done"
    /\ include_sitemap
    /\ Cardinality(requests_emails \cup selenium_emails) >= 3
    /\ \E e \in sitemap_emails :
          /\ e \notin requests_emails \cup selenium_emails
          /\ e \in all_emails

\* C9: every address of the running set is in lower case and no two
\* entries are equal under case-insensitive comparison, after any
\* combination of strategies has been merged.
C9_LowerCaseUnique ==
    /\ \A e \in all_emails : e = Lower(e)
    /\ \A e1, e2 \in all_emails : Lower(e1) = Lower(e2) => e1 = e2

\* two spellings of one address, found by different strategies, make one
\* entry of the final set
C9_Witness ==
    /\ epc = "done"
    /\ \E a \in static_resp.body, b \in sitemap_resp.body :
          /\ a # b
          /\ Lower(a) = Lower(b)
          /\ Lower(a) \in all_emails
          /\ Cardinality({ e \in all_emails : Lower(e) = Lower(a) }) = 1


-----------------------------------------------------------------------------
(* Properties of the validator (checked under SpecValidator)                *)

HasAt(s) == Positions(s, "@") # {}

\* C10: the validator rejects every address whose domain, compared
\* case-insensitively, is in the configured exclusion set
\* (AppConfig.EXCLUDED_DOMAINS), rejects every address whose lower-cased text
\* contains a configured fake pattern (EmailPatterns.FAKE_PATTERNS), accepts
\* every syntactically valid address that is neither, and always answers
\* with a boolean.
C10_ValidatorFollowsConfiguration ==
    verdict.checked =>
        LET e == verdict.email
            excluded == HasAt(e) /\ Lower(SplitDomain(e)) \in EXCLUDED_DOMAINS
            fake == MatchesFake(e, FAKE_PATTERNS)
        IN  /\ verdict.accepted \in BOOLEAN
            /\ excluded => ~ verdict.accepted
            /\ fake => ~ verdict.accepted
            /\ ( validators_email(e) /\ ~ excluded /\ ~ fake ) => verdict.accepted

-----------------------------------------------------------------------------
(* Properties of the client (checked under SpecClient and SpecShared)       *)

Queries == { c \in callers : reqlog[c].op = "query" }

BeforeRequest == { "rl_read", "rl_sleep", "rl_stamp" }

\* C3: the start times of two consecutive requests issued one after the
\* other through one client instance (get_available_models and every
\* attempt of query_model) are at least rate_limit_delay apart.
C3_MinimumSpacing ==
    Len(starts) = 2 => starts[2].at - starts[1].at >= rate_limit_delay

\* a retry of query_model that had to sleep for the whole interval
C3_Witness ==
    /\ cpc[1] = "await"
    /\ reqlog[1].op = "query"
    /\ reqlog[1].nreq = 2
    /\ Len(starts) = 2
    /\ starts[2].at - starts[1].at = rate_limit_delay

\* C4: with callers sharing one client instance, two requests started by
\* different callers one after the other are at least rate_limit_delay
\* apart (the read-and-update of last_request_time is mutually exclusive).
C4_SharedMinimumSpacing ==
    ( Len(starts) = 2 /\ starts[1].by # starts[2].by ) =>
        starts[2].at - starts[1].at >= rate_limit_delay

\* C5: after an attempt of query_model received a status that is neither
\* 200 nor 429, no further request is issued for that call: the number of
\* requests stays the index of that attempt.
C5_NoRequestAfterOtherStatus ==
    \A c \in Queries :
        reqlog[c].err_at # 0 => reqlog[c].nreq = reqlog[c].err_at

\* C6: when attempt k of query_model receives 429 the client sleeps 5*k
\* seconds; if k is below max_retries attempt k+1 is then issued, not
\* earlier than 5*k seconds after the response, and otherwise the call
\* returns; never more than max_retries requests are issued.
C6_LinearWaitAfter429 ==
    \A c \in Queries :
        LET l == reqlog[c] IN
        /\ l.nreq <= max_retries
        /\ cpc[c] = "sleep_429" =>
              /\ l.last_status = "429"
              /\ l.waited = 5 * l.nreq
              /\ wake[c] = l.resp_at + 5 * l.nreq
        /\ ( cpc[c] \in BeforeRequest /\ l.last_status = "429" ) =>
              /\ l.nreq < max_retries
              /\ l.waited = 5 * l.nreq
              /\ now >= l.resp_at + 5 * l.nreq
        /\ ( cpc[c] = "await" /\ l.nreq >= 2 /\ l.last_status = "429" ) =>
              l.start_at >= l.resp_at + 5 * (l.nreq - 1)
        /\ ( cpc[c] \in { "returned", "done" } /\ l.last_status = "429" ) =>
              l.nreq = max_retries

\* the third attempt in flight, 10 seconds after the second one got 429
C6_Witness ==
    /\ cpc[1] = "await"
    /\ reqlog[1].op = "query"
    /\ reqlog[1].nreq = 3
    /\ reqlog[1].last_status = "429"
    /\ reqlog[1].start_at = reqlog[1].resp_at + 10

TransientErrors == { "timeout", "request_error" }

\* C7: when attempt k of query_model ends with a timeout or a request
\* error and k is below max_retries, the client sleeps 2^(k-1) seconds and
\* then issues attempt k+1; after the last attempt it does not sleep and
\* the call returns.
C7_ExponentialWaitAfterError ==
    \A c \in Queries :
        LET l == reqlog[c] IN
        /\ cpc[c] = "sleep_exc" =>
              /\ l.last_status \in TransientErrors
              /\ l.nreq < max_retries
              /\ l.waited = 2 ^ (l.nreq - 1)
              /\ wake[c] = l.resp_at + 2 ^ (l.nreq - 1)
        /\ ( cpc[c] \in BeforeRequest /\ l.last_status \in TransientErrors ) =>
              /\ l.nreq < max_retries
              /\ l.waited = 2 ^ (l.nreq - 1)
              /\ now >= l.resp_at + 2 ^ (l.nreq - 1)
        /\ ( cpc[c] = "await" /\ l.nreq >= 2
                /\ l.last_status \in TransientErrors ) =>
              l.start_at >= l.resp_at + 2 ^ (l.nreq - 2)
        /\ ( cpc[c] \in { "returned", "done" }
                /\ l.last_status \in TransientErrors ) =>
              /\ l.nreq = max_retries
              /\ l.waited = 0

\* the third attempt in flight, 2 seconds after the second one timed out
C7_Witness ==
    /\ cpc[1] = "await"
    /\ reqlog[1].op = "query"
    /\ reqlog[1].nreq = 3
    /\ reqlog[1].last_status = "timeout"
    /\ reqlog[1].start_at = reqlog[1].resp_at + 2

\* C8: query_model's None (attempts exhausted) is told apart from a 200
\* response with empty content: main() shows the failure message when the
\* call returned None, and does not show it when the call returned the
\* content of a 200 response, empty or not.
C8_FailureOnlyWhenExhausted ==
    \A c \in Queries :
        cpc[c] = "done" =>
            /\ result[c].kind = "None" => shown[c] = "failed"
            /\ result[c].kind = "str" => shown[c] # "failed"

-----------------------------------------------------------------------------
(* Properties of the categorizer (checked under SpecCategorizer)            *)

\* the places (category, index) of the returned dict that hold the address
PlacesOf(email) ==
    { p \in UNION { { << k, i >> : i \in 1..Len(cat_result.dict[k]) } :
                    k \in DOMAIN cat_result.dict } :
        cat_result.dict[p[1]][p[2]] = email }

\* C11: once categorize_emails has returned for a list of distinct
\* addresses, every address of the list stands at exactly one place of
\* exactly one category list of the returned dict, and the returned lists
\* hold nothing but addresses of the list.
C11_ExactlyOneCategory ==
    (cat_result.returned /\ cat_emails # << >>) =>
        /\ \A e \in Range(cat_emails) : Cardinality(PlacesOf(e)) = 1
        /\ \A k \in DOMAIN cat_result.dict :
               /\ cat_result.dict[k] # << >>
               /\ Range(cat_result.dict[k]) \subseteq Range(cat_emails)

\* a returned call on two addresses, one of which matches the patterns of
\* two categories, the other falling to no pattern at all
C11_Witness ==
    /\ cat_result.returned
    /\ cat_emails = << <<"S","a","l","e","s","S","u","p","p","o","r","t","@","a","c","m","e",".","i","o">>, <<"b","o","b","@","a","c","m","e",".","i","o">> >>
    /\ DOMAIN cat_result.dict = { "sales", "general" }

\* C12: every address the loop has handled whose lower-cased local part
\* holds a keyword of the six configured lists (sales, support, info, admin,
\* marketing, hr, tested in that order) sits in the list of the first such
\* category.
C12_ConfiguredOrderFirstMatch ==
    \A i \in 1..cat_pos :
        LET e    == cat_emails[i]
            want == FirstMatch(local_part(e), CATEGORY_PATTERNS)
        IN  want # "none" =>
                /\ want \in DOMAIN categories
                /\ e \in Range(categories[want])

\* re.search finds one of the patterns of categorize_emails in the local part
HasKeyword(local) ==
    \E i \in 1..Len(patterns) : \E j \in 1..Len(patterns[i].pattern_list) :
        Contains(local, patterns[i].pattern_list[j])

\* C13: an address the loop has handled whose local part holds none of the
\* keywords of categorize_emails is in personal and not in general when the
\* local part holds a period, in general and not in personal when it does
\* not; an address whose local part holds a keyword is in neither.
C13_FallbackOnlyWithoutMatch ==
    \A i \in 1..cat_pos :
        LET e        == cat_emails[i]
            local    == local_part(e)
            personal == e \in Range(categories["personal"])
            general  == e \in Range(categories["general"])
        IN  /\ (~HasKeyword(local) /\ "." \in Range(local)) =>
                   (personal /\ ~general)
            /\ (~HasKeyword(local) /\ "." \notin Range(local)) =>
                   (general /\ ~personal)
            /\ HasKeyword(local) => (~personal /\ ~general)

\* the loop has handled a keyword address with a period and then a
\* keyword-free address with a period
C13_Witness ==
    /\ cat_pos = 2
    /\ cat_emails = << <<"j",".","a","d","m","i","n","@","a","c","m","e",".","i","o">>, <<"a",".","b","@","a","c","m","e",".","i","o">> >>
    /\ categories["admin"] = << <<"j",".","a","d","m","i","n","@","a","c","m","e",".","i","o">> >>
    /\ categories["personal"] = << <<"a",".","b","@","a","c","m","e",".","i","o">> >>

-----------------------------------------------------------------------------
(* Further properties of the extraction block (Spec, SpecPrivate)           *)

FailedStatic == static_resp.status \in {"http_error", "network_error"}

FailedRendered ==
    rendered_resp.status \in {"driver_failed", "webdriver_error", "timeout"}

FailedSitemap == sitemap_resp.status = "none" /\ calls.sitemap = 1

\* what a strategy's answer contributes: the accepted addresses of its body
Contribution(resp) == IF resp.status = "ok" THEN Accepted(resp.body) ELSE {}

\* C14: main() never shows the error of its except clause because of a
\* failed strategy; a finished request has run every enabled strategy once
\* (the rendered one after a failed static fetch in Auto), a failed
\* strategy has contributed the empty set, and the final set is the union
\* of what the strategies that answered contributed.
C14_StrategyFailureContained ==
    /\ display # "error"
    /\ epc = "done" =>
          /\ uses_requests(extraction_method) => calls.requests = 1
          /\ FailedStatic =>
                /\ requests_emails = {}
                /\ extraction_method = Auto => calls.selenium = 1
          /\ extraction_method = SeleniumOnly => calls.selenium = 1
          /\ FailedRendered => selenium_emails = {}
          /\ include_sitemap => calls.sitemap = 1
          /\ FailedSitemap => sitemap_emails = {}
          /\ all_emails = Contribution(static_resp)
                            \cup Contribution(rendered_resp)
                            \cup Contribution(sitemap_resp)

\* a finished Auto request whose static fetch met a network error and whose
\* browser timed out, while the sitemap contributed the whole result
C14_Witness ==
    /\ epc = "done"
    /\ extraction_method = Auto
    /\ static_resp.status = "network_error"
    /\ rendered_resp.status = "timeout"
    /\ sitemap_resp.status = "ok"
    /\ all_emails # {}
    /\ all_emails = sitemap_emails
    /\ display = "found"

\* every strategy that was run failed, and at least one was run
AllEnabledFailed ==
    /\ calls.requests + calls.selenium + calls.sitemap >= 1
    /\ calls.requests = 1 => FailedStatic
    /\ calls.selenium = 1 => FailedRendered
    /\ calls.sitemap = 1 => FailedSitemap

\* C15: a finished request with zero addresses all of whose strategies
\* failed shows something else than what a request shows whose strategies
\* answered and found nothing.
C15_FailureDistinguished ==
    ( epc = "done" /\ all_emails = {} /\ AllEnabledFailed ) =>
        display # results_display({})

IsPrivateHost(h) ==
    \/ StartsWith(h, <<"1","2","7",".">>)
    \/ StartsWith(h, <<"1","0",".">>)
    \/ StartsWith(h, <<"1","9","2",".","1","6","8",".">>)

\* C17: with RESTRICT_PRIVATE_IPS on, a request for a URL whose host is a
\* loopback or private-network address calls no fetcher and shows no result.
C17_PrivateTargetBlocked ==
    ( RESTRICT_PRIVATE_IPS /\ HasScheme(url) /\ IsPrivateHost(UrlHost(url)) )
        => ( calls = NoCalls /\ display \notin {"found", "no_emails"} )

\* C20: extract_with_requests is called at most once, before any other
\* fetcher; once the static step is over it has been called exactly when
\* the method is Auto or Requests-only; at the escalation decision the
\* running set is what it returned, and this stays in the running set
\* through the sitemap step; in Selenium-only no static request is issued.
C20_StaticFirstAndMerged ==
    /\ calls.requests \in {0, 1}
    /\ epc \in {"input", "requests", "rejected", "skipped"} => calls = NoCalls
    /\ epc \in {"selenium", "sitemap", "done"} =>
          ( calls.requests = 1 <=>
                extraction_method \in { Auto, RequestsOnly } )
    /\ epc = "selenium" =>
          /\ calls.selenium = 0 /\ calls.sitemap = 0
          /\ all_emails = requests_emails
          /\ calls.requests = 1 =>
                /\ static_resp # NoResp
                /\ requests_emails = Contribution(static_resp)
    /\ epc \in {"sitemap", "done"} => requests_emails \subseteq all_emails
    /\ extraction_method = SeleniumOnly =>
          ( calls.requests = 0 /\ static_resp = NoResp )

\* an Auto request at the escalation decision, the static fetch done and
\* its two addresses merged, no other fetcher called yet
C20_Witness ==
    /\ epc = "selenium"
    /\ extraction_method = Auto
    /\ calls = [ requests |-> 1, selenium |-> 0, sitemap |-> 0 ]
    /\ Cardinality(requests_emails) = 2
    /\ all_emails = requests_emails

-----------------------------------------------------------------------------
(* Properties of the browser session (checked under SpecSelenium)           *)

\* C18: when extract_with_selenium has returned, no browser process it
\* started is still running, whichever step of the call failed.
C18_BrowserQuitBeforeReturn == spc = "returned" => browser # "running"

-----------------------------------------------------------------------------
(* Properties of the sitemap probing (checked under SpecSitemap)            *)

\* the locations that answer status 200
Hits == { i \in DOMAIN sm_answers : sm_answers[i].kind = "200" }

FirstHit == CHOOSE i \in Hits : \A j \in Hits : i <= j

\* C19: the locations requested are at all times a prefix of sitemap.xml,
\* sitemap_index.xml, sitemap.txt; when extract_from_sitemap has returned
\* they are the locations up to and including the first one that answered
\* 200 (all three if none did), every location before it having raised or
\* answered another status, and the returned set is what is accepted from
\* that one body (empty when the body holds no acceptable address, and
\* empty when no location answered 200).
C19_FirstAnswerOnly ==
    /\ Len(sm_requested) <= Len(sitemap_urls)
    /\ sm_requested = SubSeq(sitemap_urls, 1, Len(sm_requested))
    /\ sm_return.returned =>
          /\ Len(sm_requested) = IF Hits = {} THEN Len(sitemap_urls)
                                 ELSE FirstHit
          /\ sm_return.value = IF Hits = {} THEN {}
                               ELSE Accepted(sm_answers[FirstHit].body)

\* a returned call whose first location raised, whose second answered 200
\* with a body without addresses, and whose third would have answered 200
\* with an address
C19_Witness ==
    /\ sm_return.returned
    /\ sm_answers[1].kind = "raise"
    /\ sm_answers[2] = [ kind |-> "200", body |-> {} ]
    /\ sm_answers[3].kind = "200"
    /\ Accepted(sm_answers[3].body) # {}
    /\ sm_requested = << "sitemap.xml", "sitemap_index.xml" >>
    /\ sm_return.value = {}

-----------------------------------------------------------------------------
(* Properties of the time budget (checked under SpecBudget)                 *)

MaxDeadline == 30

\* the overall deadlines considered: none shorter than the longest single
\* timeout
Deadlines == RequestsTimeout..MaxDeadline

\* C21: whatever overall deadline the request was given, the timeout
\* handed to each blocking call of a strategy is at most what is left of
\* the deadline when the call starts, and the time spent in the strategies
\* is at most the deadline.
C21_TimeoutsWithinBudget ==
    \A deadline \in Deadlines :
        /\ \A i \in 1..Len(b_log) :
               b_log[i].timeout <= deadline - b_log[i].at
        /\ b_elapsed <= deadline

-----------------------------------------------------------------------------
(* Further properties of the client (checked under SpecClient)              *)

\* the last POST of the caller's query_model call answered HTTP 200
Answered200(c) == reqlog[c].last_status \in { "200", "200_no_choices" }

\* C22: a query_model call issues at most max_retries requests; once a
\* request has answered HTTP 200 the call is over without a further
\* request and has returned a string, the message content of that answer;
\* a call that ends otherwise has returned None, and no call ends by
\* raising.
C22_BoundedRequestsThenContentOrNone ==
    \A c \in callers :
        reqlog[c].op = "query" =>
            /\ reqlog[c].nreq <= max_retries
            /\ cpc[c] # "raised"
            /\ Answered200(c) =>
                  /\ cpc[c] \in { "returned", "done" }
                  /\ result[c].kind = "str"
            /\ ( cpc[c] = "returned" /\ ~ Answered200(c) ) =>
                  result[c] = PyNone

====
